---- MODULE Spec2Model ----
(***************************************************************************)
(* Model of the task tracker of src/src/App.tsx: the AppState held by the  *)
(* App component (tasks, history, settings), the localStorage entry it is  *)
(* loaded from and saved to, the task operations and the derived views.    *)
(*                                                                         *)
(* Timestamps.  The program keeps every timestamp as an ISO-8601 string in *)
(* UTC (Date.prototype.toISOString).  The model keeps the instant such a   *)
(* string denotes, counted in hours since 2023-01-01T00:00Z; the calendar  *)
(* fields the program reads from a Date (getDate, getMonth, the first ten  *)
(* characters of the ISO string) are computed from the instant by the      *)
(* civil-calendar operators below.  null is the value NULL.                *)
(***************************************************************************)
EXTENDS Integers, Sequences, FiniteSets, TLC

VARIABLES
  tasks,      \* state.tasks: sequence of Task records, newest first
  history,    \* state.history: sequence of HistoryItem records, newest first
  settings,   \* state.settings: [timezone |-> name]
  store,      \* the localStorage entry under STORAGE_KEY
  session,    \* "running", or "crashed" when the first render threw
  now,        \* the wall clock (instant returned by new Date())
  tz,         \* the environment's offset of local time from UTC, in hours
  nextId,     \* the next value uuidv4() returns
  edits,      \* number of direct editTask calls so far
  lastOp,     \* the handler that ran last and the id it was given
  filter,     \* the filter mode chosen in the task list
  query,      \* the text of the search box
  memoAt,     \* the clock reading inside the cached completedByDay
  other       \* a second tab on the same store: its own state, or NoTab

vars == <<tasks, history, settings, store, session, now, tz, nextId, edits, lastOp,
          filter, query, memoAt, other>>

STORAGE_KEY == "task_app_v1"

NULL == -1

(***************************************************************************)
(* Bounds of the model.                                                    *)
(***************************************************************************)
MaxIds == 3          \* uuidv4() is called at most MaxIds times
MaxTasks == 2        \* addTask is called only while tasks is shorter
MaxTicks == 1        \* the clock advances at most MaxTicks times
MaxEdits == 1        \* editTask is called directly at most MaxEdits times

HoursPerDay == 24
WindowDays == 14
TickStep == 17                       \* hours between two clock readings
BaseNow == (395 * 24) + 3            \* 2024-01-31T03:00Z
TzOffsets == {0, 6}                  \* UTC, Asia/Dhaka
Years == 2023 .. 2027

(***************************************************************************)
(* The civil calendar of Date: days are counted from 2023-01-01 (day 0),   *)
(* months from 0 (January) as getMonth does.                               *)
(***************************************************************************)
IsLeap(y) == (y % 4 = 0 /\ y % 100 # 0) \/ y % 400 = 0

DaysInYear(y) == IF IsLeap(y) THEN 366 ELSE 365

DaysInMonth(y, m) ==
  IF m = 1 THEN (IF IsLeap(y) THEN 29 ELSE 28)
  ELSE IF m \in {3, 5, 8, 10} THEN 30 ELSE 31

RECURSIVE DayFromYear(_)
DayFromYear(y) == IF y <= 2023 THEN 0 ELSE DayFromYear(y - 1) + DaysInYear(y - 1)

RECURSIVE DayFromMonth(_, _)
DayFromMonth(y, m) ==
  IF m = 0 THEN DayFromYear(y) ELSE DayFromMonth(y, m - 1) + DaysInMonth(y, m - 1)

\* MakeDay(year, month, date): month may exceed 11 and date may lie outside
\* the month; both are carried over, as the Date setters do.
MakeDay(y, m, d) == DayFromMonth(y + (m \div 12), m % 12) + d - 1

YearFromDay(n) == CHOOSE y \in Years : DayFromYear(y) <= n /\ n < DayFromYear(y + 1)

MonthFromDay(n) ==
  LET y == YearFromDay(n)
  IN  CHOOSE m \in 0 .. 11 :
        DayFromMonth(y, m) <= n /\ n < DayFromMonth(y, m) + DaysInMonth(y, m)

\* the calendar date of day number n
CivilFromDay(n) ==
  LET y == YearFromDay(n)
      m == MonthFromDay(n)
  IN  [year |-> y, month |-> m, date |-> (n - DayFromMonth(y, m)) + 1]

\* local calendar fields of an instant (getFullYear, getMonth, getDate, getHours)
LocalDay(t, z) == (t + z) \div HoursPerDay
LocalHour(t, z) == (t + z) % HoursPerDay
LocalDate(t, z) == CivilFromDay(LocalDay(t, z))

\* the instant of a local calendar day and hour
FromLocal(day, hour, z) == ((day * HoursPerDay) + hour) - z

\* toISOString().slice(0, 10): the UTC calendar date of an instant
IsoDate(t) == CivilFromDay(t \div HoursPerDay)

nowISO == now

(***************************************************************************)
(* plusInterval                                                            *)
(***************************************************************************)
\* plusInterval with the weekly branch adding one day, as the daily one
plusIntervalWeeklyOneDay(dateISO, recurrence, z) ==
  LET c == LocalDate(dateISO, z)
      h == LocalHour(dateISO, z)
  IN  IF recurrence = "daily"
        THEN FromLocal(MakeDay(c.year, c.month, c.date + 1), h, z)
      ELSE IF recurrence = "weekly"
        THEN FromLocal(MakeDay(c.year, c.month, c.date + 1), h, z)
      ELSE IF recurrence = "monthly"
        THEN FromLocal(MakeDay(c.year, c.month + 1, c.date), h, z)
      ELSE dateISO

\* plusInterval whose monthly branch stops at the last day of a shorter month
plusIntervalClamping(dateISO, recurrence, z) ==
  LET c == LocalDate(dateISO, z)
      h == LocalHour(dateISO, z)
      last == DaysInMonth(c.year + ((c.month + 1) \div 12), (c.month + 1) % 12)
  IN  IF recurrence = "daily"
        THEN FromLocal(MakeDay(c.year, c.month, c.date + 1), h, z)
      ELSE IF recurrence = "weekly"
        THEN FromLocal(MakeDay(c.year, c.month, c.date + 7), h, z)
      ELSE IF recurrence = "monthly"
        THEN FromLocal(MakeDay(c.year, c.month + 1,
                               IF c.date > last THEN last ELSE c.date), h, z)
      ELSE dateISO

plusInterval(dateISO, recurrence, z) ==
  LET c == LocalDate(dateISO, z)
      h == LocalHour(dateISO, z)
  IN  IF recurrence = "daily"
        THEN FromLocal(MakeDay(c.year, c.month, c.date + 1), h, z)
      ELSE IF recurrence = "weekly"
        THEN FromLocal(MakeDay(c.year, c.month, c.date + 7), h, z)
      ELSE IF recurrence = "monthly"
        THEN FromLocal(MakeDay(c.year, c.month + 1, c.date), h, z)
      ELSE dateISO

(***************************************************************************)
(* The durable store.  A localStorage entry is absent or a string; the     *)
(* strings are told apart by what JSON.parse makes of them.  JSON text is  *)
(* modelled by the value it denotes, every scalar tagged with its JSON     *)
(* type.                                                                   *)
(***************************************************************************)
NoEntry == [kind |-> "missing"]                       \* getItem returns null
EmptyText == [kind |-> "empty"]                       \* ""
Garbage == [kind |-> "garbage"]                       \* not JSON: parse throws
JsonNull == [kind |-> "json", shape |-> "null"]       \* "null"
JsonNumber == [kind |-> "json", shape |-> "number"]   \* "5"
JsonObject == [kind |-> "json", shape |-> "object"]   \* "{}"

JStr(v) == [t |-> "string", v |-> v]
JBool(v) == [t |-> "boolean", v |-> v]
JNullable(v) == IF v = NULL THEN [t |-> "null"] ELSE JStr(v)

UnJ(j) == IF j.t = "null" THEN NULL ELSE j.v

EncTask(t) ==
  [id |-> JStr(t.id), title |-> JStr(t.title), notes |-> JStr(t.notes),
   createdAt |-> JStr(t.createdAt), due |-> JNullable(t.due),
   recurrence |-> JStr(t.recurrence), completed |-> JBool(t.completed),
   nextDue |-> JNullable(t.nextDue), archived |-> JBool(t.archived)]

EncHistory(h) ==
  [id |-> JStr(h.id), taskId |-> JStr(h.taskId), title |-> JStr(h.title),
   at |-> JStr(h.at)]

DecRecord(j) == [f \in DOMAIN j |-> UnJ(j[f])]

\* JSON.stringify(state)
stringify(state) ==
  [kind |-> "json", shape |-> "AppState",
   tasks |-> [i \in 1 .. Len(state.tasks) |-> EncTask(state.tasks[i])],
   history |-> [i \in 1 .. Len(state.history) |-> EncHistory(state.history[i])],
   settings |-> [timezone |-> JStr(state.settings.timezone)]]

\* JSON.parse(text) for a text that is JSON
parse(text) ==
  IF text.shape = "AppState"
    THEN [shape |-> "AppState",
          tasks |-> [i \in 1 .. Len(text.tasks) |-> DecRecord(text.tasks[i])],
          history |-> [i \in 1 .. Len(text.history) |-> DecRecord(text.history[i])],
          settings |-> [timezone |-> UnJ(text.settings.timezone)]]
    ELSE [shape |-> text.shape]

NoState == [shape |-> "null"]

\* loadState(): null when the entry is absent, empty or not JSON
loadState(entry) ==
  IF entry.kind \in {"missing", "empty"} THEN NoState
  ELSE IF entry.kind = "garbage" THEN NoState
  ELSE parse(entry)

\* saveState writing the tasks and the settings but an empty history
saveStateWithoutHistory(state) ==
  stringify([tasks |-> state.tasks, history |-> <<>>, settings |-> state.settings])

\* saveState(state): the new content of the entry
saveState(state) == stringify(state)

AppState(t, h, s) == [tasks |-> t, history |-> h, settings |-> s]

\* Intl.DateTimeFormat().resolvedOptions().timeZone
TimeZoneName(z) ==
  IF z = 0 THEN "UTC" ELSE IF z = 6 THEN "Asia/Dhaka" ELSE "America/Bogota"

FreshState(z) == AppState(<<>>, <<>>, [timezone |-> TimeZoneName(z)])

\* the useState initializer of App
InitialState(entry, z) ==
  LET s == loadState(entry)
  IN  IF s.shape = "null" THEN FreshState(z)
      ELSE IF s.shape = "AppState" THEN AppState(s.tasks, s.history, s.settings)
      ELSE s

\* The first render of App reads state.history, state.tasks and
\* state.settings.timezone; on a value without them it throws.
Renders(state) == "tasks" \in DOMAIN state /\ "history" \in DOMAIN state
                    /\ "settings" \in DOMAIN state

\* no second tab is open
NoTab == [open |-> FALSE]

\* what the store may hold when a session starts
InitialStores ==
  {NoEntry, EmptyText, Garbage, JsonNull, JsonNumber, JsonObject}

\* Mounting App on a store entry: the initial state, and the save effect
\* that runs after the first render.  When the render throws nothing is saved
\* and the session has no tasks or history (modelled as empty sequences).
Mount(entry, z, op) ==
  LET s == InitialState(entry, z)
  IN  /\ lastOp' = [op |-> op, id |-> 0, raw |-> entry]
      /\ filter' = "all"
      /\ query' = ""
      /\ memoAt' = IF Renders(s) THEN now ELSE NULL
      /\ IF Renders(s)
           THEN /\ session' = "running"
                /\ tasks' = s.tasks
                /\ history' = s.history
                /\ settings' = s.settings
                /\ store' = saveState(s)
           ELSE /\ session' = "crashed"
                /\ tasks' = <<>>
                /\ history' = <<>>
                /\ settings' = [timezone |-> ""]
                /\ store' = entry

Init ==
  /\ tz \in TzOffsets
  /\ now = BaseNow
  /\ nextId = 1
  /\ edits = 0
  /\ \E entry \in InitialStores :
       LET s == InitialState(entry, tz)
       IN  /\ lastOp = [op |-> "mount", id |-> 0, raw |-> entry]
           /\ filter = "all"
           /\ query = ""
           /\ memoAt = IF Renders(s) THEN now ELSE NULL
           /\ other = NoTab
           /\ IF Renders(s)
                THEN /\ session = "running"
                     /\ tasks = s.tasks
                     /\ history = s.history
                     /\ settings = s.settings
                     /\ store = saveState(s)
                ELSE /\ session = "crashed"
                     /\ tasks = <<>>
                     /\ history = <<>>
                     /\ settings = [timezone |-> ""]
                     /\ store = entry

\* the page is reloaded: the session ends and App is mounted on the store
Reload ==
  /\ Mount(store, tz, "reload")
  /\ UNCHANGED <<now, tz, nextId, edits, other>>

\* time passes
Tick ==
  /\ now < BaseNow + (MaxTicks * TickStep)
  /\ now' = now + TickStep
  /\ lastOp' = [op |-> "tick", id |-> 0]
  /\ UNCHANGED <<tasks, history, settings, store, session, tz, nextId, edits,
                 filter, query, memoAt, other>>

(***************************************************************************)
(* Task operations.  Every handler runs to completion; the state it sets   *)
(* is rendered and the save effect of App writes it to the store before    *)
(* the next event is handled.                                              *)
(***************************************************************************)
Recurrences == {"none", "daily", "weekly", "monthly"}

\* the form fields of TaskForm: texts, a local date and time (or "" for no
\* due, modelled as NULL), a recurrence ("" stands for an omitted one)
FormDue == (395 * 24) + 18                    \* 2024-01-31T18:00, local time
FormInputs ==
  {[title |-> "a", notes |-> "", due |-> FormDue, recurrence |-> "daily"],
   [title |-> "", notes |-> "", due |-> NULL, recurrence |-> "weekly"],
   [title |-> "a", notes |-> "", due |-> FormDue, recurrence |-> "monthly"],
   [title |-> "", notes |-> "", due |-> FormDue, recurrence |-> ""]}

\* ids a handler can be called with: the tasks', those of history, and one
\* that uuidv4 never returned
IdInputs ==
  {0} \cup {tasks[i].id : i \in 1 .. Len(tasks)}
      \cup {history[i].taskId : i \in 1 .. Len(history)}

\* TaskForm.submit: due ? new Date(due).toISOString() : null
submitDue(due, z) == IF due = NULL THEN NULL ELSE due - z

\* s.tasks.find(x => x.id === id): the index of the first match, 0 for none
find(ts, id) ==
  IF \E i \in 1 .. Len(ts) : ts[i].id = id
    THEN CHOOSE i \in 1 .. Len(ts) :
           ts[i].id = id /\ \A j \in 1 .. (i - 1) : ts[j].id # id
    ELSE 0

\* { ...t, ...patch }
merge(t, patch) ==
  [f \in (DOMAIN t) \cup (DOMAIN patch) |->
     IF f \in DOMAIN patch THEN patch[f] ELSE t[f]]

\* s.tasks.map(t => t.id === id ? { ...t, ...patch } : t)
patchTasks(ts, id, patch) ==
  [i \in 1 .. Len(ts) |-> IF ts[i].id = id THEN merge(ts[i], patch) ELSE ts[i]]

\* the filter of deleteTask with its test inverted
removeTasksInverted(ts, id) == SelectSeq(ts, LAMBDA t : t.id = id)

\* s.tasks.filter(t => t.id !== id)
removeTasks(ts, id) == SelectSeq(ts, LAMBDA t : t.id # id)

\* Commit that keeps in the store the tasks it holds and the state lacks
CommitKeepsStored(t, h) ==
  LET kept == SelectSeq(InitialState(store, tz).tasks, LAMBDA x : find(t, x.id) = 0)
  IN  /\ tasks' = t
      /\ history' = h
      /\ store' = saveState(AppState(t \o kept, h, settings))
      /\ memoAt' = IF h # history THEN now ELSE memoAt
      /\ UNCHANGED <<settings, session, now, tz, filter, query, other>>

\* setState followed by the render and the save effect.  The render
\* recomputes completedByDay, reading the clock, only when state.history
\* is a new array; otherwise it reuses the cached value.
Commit(t, h) ==
  /\ tasks' = t
  /\ history' = h
  /\ store' = saveState(AppState(t, h, settings))
  /\ memoAt' = IF h # history THEN now ELSE memoAt
  /\ UNCHANGED <<settings, session, now, tz, filter, query, other>>

\* newTask that keeps an empty title
newTaskKeepsEmptyTitle(title, notes, due, recurrence) ==
  [id |-> nextId,
   title |-> title,
   notes |-> IF notes = "" THEN "" ELSE notes,
   createdAt |-> nowISO,
   due |-> due,
   recurrence |-> IF recurrence = "" THEN "none" ELSE recurrence,
   completed |-> FALSE,
   nextDue |-> due,
   archived |-> FALSE]

newTask(title, notes, due, recurrence) ==
  [id |-> nextId,
   title |-> IF title = "" THEN "Untitled" ELSE title,
   notes |-> IF notes = "" THEN "" ELSE notes,
   createdAt |-> nowISO,
   due |-> due,
   recurrence |-> IF recurrence = "" THEN "none" ELSE recurrence,
   completed |-> FALSE,
   nextDue |-> due,
   archived |-> FALSE]

addTask(title, notes, due, recurrence) ==
  /\ session = "running"
  /\ nextId <= MaxIds
  /\ Len(tasks) < MaxTasks
  /\ Commit(<<newTask(title, notes, submitDue(due, tz), recurrence)>> \o tasks, history)
  /\ nextId' = nextId + 1
  /\ lastOp' = [op |-> "addTask", id |-> nextId,
                input |-> [title |-> title, notes |-> notes, due |-> due,
                           recurrence |-> recurrence]]
  /\ UNCHANGED edits

editTaskAs(id, patch, op) ==
  /\ session = "running"
  /\ Commit(patchTasks(tasks, id, patch), history)
  /\ lastOp' = [op |-> op, id |-> id]
  /\ UNCHANGED nextId

\* a toggle that can only mark a task completed
toggledTasksOnlySets(ts, id) ==
  [i \in 1 .. Len(ts) |->
     IF ts[i].id = id THEN merge(ts[i], [completed |-> TRUE]) ELSE ts[i]]

\* the tasks toggleComplete returns
toggledTasks(ts, id) ==
  [i \in 1 .. Len(ts) |->
     IF ts[i].id = id THEN merge(ts[i], [completed |-> ~ts[i].completed])
                      ELSE ts[i]]

toggleComplete(id) ==
  /\ session = "running"
  /\ Commit(toggledTasks(tasks, id), history)
  /\ lastOp' = [op |-> "toggleComplete", id |-> id]
  /\ UNCHANGED <<nextId, edits>>

\* completeNow without the test of the recurrence: every task is rescheduled
completedTasksUnguarded(ts, id, timestamp, z) ==
  LET t == ts[find(ts, id)]
      done == patchTasks(ts, id, [completed |-> TRUE])
  IN  patchTasks(done, id,
        [nextDue |-> plusInterval(IF t.nextDue = NULL THEN timestamp ELSE t.nextDue,
                                  t.recurrence, z),
         completed |-> FALSE])

\* completeNow that reschedules from the time of the completion
completedTasksFromNow(ts, id, timestamp, z) ==
  LET t == ts[find(ts, id)]
      done == patchTasks(ts, id, [completed |-> TRUE])
  IN  IF t.recurrence # "" /\ t.recurrence # "none"
        THEN patchTasks(done, id,
               [nextDue |-> plusInterval(timestamp, t.recurrence, z),
                completed |-> FALSE])
        ELSE done

\* the tasks and history completeNow returns for a task that was found
completedTasks(ts, id, timestamp, z) ==
  LET t == ts[find(ts, id)]
      done == patchTasks(ts, id, [completed |-> TRUE])
  IN  IF t.recurrence # "" /\ t.recurrence # "none"
        THEN patchTasks(done, id,
               [nextDue |-> plusInterval(IF t.nextDue = NULL THEN timestamp
                                                            ELSE t.nextDue,
                                         t.recurrence, z),
                completed |-> FALSE])
        ELSE done

historyItem(t, timestamp) ==
  [id |-> nextId, taskId |-> t.id, title |-> t.title, at |-> timestamp]

\* completeNow that puts the new entry at the end of history
completeNowAppends(id) ==
  /\ session = "running"
  /\ lastOp' = [op |-> "completeNow", id |-> id]
  /\ UNCHANGED edits
  /\ IF find(tasks, id) = 0
       THEN UNCHANGED <<tasks, history, settings, store, session, now, tz, nextId,
                        filter, query, memoAt, other>>
       ELSE /\ nextId <= MaxIds
            /\ Commit(completedTasks(tasks, id, nowISO, tz),
                      history \o <<historyItem(tasks[find(tasks, id)], nowISO)>>)
            /\ nextId' = nextId + 1

completeNow(id) ==
  /\ session = "running"
  /\ lastOp' = [op |-> "completeNow", id |-> id]
  /\ UNCHANGED edits
  /\ IF find(tasks, id) = 0
       THEN \* the updater returns s itself: no render, no save
            UNCHANGED <<tasks, history, settings, store, session, now, tz, nextId,
                        filter, query, memoAt, other>>
       ELSE /\ nextId <= MaxIds
            /\ Commit(completedTasks(tasks, id, nowISO, tz),
                      <<historyItem(tasks[find(tasks, id)], nowISO)>> \o history)
            /\ nextId' = nextId + 1

\* deleteTask that also drops the history entries of the task
deleteTaskCascade(id) ==
  /\ session = "running"
  /\ Commit(SelectSeq(tasks, LAMBDA t : t.id # id),
            SelectSeq(history, LAMBDA h : h.taskId # id))
  /\ lastOp' = [op |-> "deleteTask", id |-> id]
  /\ UNCHANGED <<nextId, edits>>

deleteTask(id) ==
  /\ session = "running"
  /\ Commit(removeTasks(tasks, id), history)
  /\ lastOp' = [op |-> "deleteTask", id |-> id]
  /\ UNCHANGED <<nextId, edits>>

\* archiveTask taking the task out of tasks
archiveTaskRemoves(id) ==
  /\ session = "running"
  /\ Commit(removeTasks(tasks, id), history)
  /\ lastOp' = [op |-> "archiveTask", id |-> id]
  /\ UNCHANGED <<nextId, edits>>

archiveTask(id) ==
  /\ editTaskAs(id, [archived |-> TRUE], "archiveTask")
  /\ UNCHANGED edits

\* patches of editTask: no field, one field, several fields
PatchTime == (397 * 24) + 9                   \* 2024-02-02T09:00Z
Patches ==
  {[f \in {} |-> 0], [title |-> "b"], [notes |-> "n"], [archived |-> FALSE],
   [completed |-> TRUE], [recurrence |-> "weekly"], [due |-> NULL],
   [nextDue |-> PatchTime], [createdAt |-> PatchTime], [id |-> 1],
   [title |-> "b", archived |-> TRUE]}

editTask(id, patch) ==
  /\ edits < MaxEdits
  /\ edits' = edits + 1
  /\ editTaskAs(id, patch, "editTask")

(***************************************************************************)
(* Analytics helpers.                                                      *)
(***************************************************************************)
\* lastNDays(n): local midnight of each of the last n days, oldest first
lastNDays(n, clock, z) ==
  LET c == LocalDate(clock, z)
  IN  [k \in 1 .. n |-> FromLocal(MakeDay(c.year, c.month, c.date - (n - k)), 0, z)]

\* map.findIndex(m => m.date === key): first index whose date is key, 0 for -1
findIndex(map, key) ==
  IF \E k \in 1 .. Len(map) : map[k].date = key
    THEN CHOOSE k \in 1 .. Len(map) :
           map[k].date = key /\ \A j \in 1 .. (k - 1) : map[j].date # key
    ELSE 0

\* completedByDay, computed at time clock: date is the ISO (UTC) date of the
\* day's local midnight, label its local date, count the entries whose ISO
\* date is date
completedByDay(h, clock, z) ==
  LET days == lastNDays(WindowDays, clock, z)
      map == [k \in 1 .. WindowDays |->
                [date |-> IsoDate(days[k]), label |-> LocalDate(days[k], z)]]
  IN  [k \in 1 .. WindowDays |->
         [date |-> map[k].date,
          label |-> map[k].label,
          count |-> Cardinality({j \in 1 .. Len(h) :
                                   findIndex(map, IsoDate(h[j].at)) = k})]]

\* the counts object after the loop over the first n entries of h:
\* counts[h.taskId] = (counts[h.taskId] || 0) + 1
RECURSIVE counts(_, _)
counts(h, n) ==
  IF n = 0 THEN <<>>
  ELSE LET prev == counts(h, n - 1)
           key == h[n].taskId
       IN  [k \in DOMAIN prev \cup {key} |->
              IF k = key THEN (IF key \in DOMAIN prev THEN prev[key] ELSE 0) + 1
                         ELSE prev[k]]

\* completionsPerTask: a row per task, count: counts[t.id] || 0
completionsPerTask(h, ts) ==
  LET c == counts(h, Len(h))
  IN  [i \in 1 .. Len(ts) |->
         [title |-> ts[i].title, id |-> ts[i].id,
          count |-> IF ts[i].id \in DOMAIN c THEN c[ts[i].id] ELSE 0]]

\* the views on the page: the memoized completedByDay, computed with the
\* clock reading of the render in which state.history last changed, and the
\* memoized completionsPerTask, whose inputs are all among its dependencies
shownByDay == completedByDay(history, memoAt, tz)

shownPerTask == completionsPerTask(history, tasks)

\* the history rows on the page: state.history.slice(0, 20)
HistoryRows == 20

historyRows(h) == SubSeq(h, 1, IF Len(h) < HistoryRows THEN Len(h) ELSE HistoryRows)

\* The characters of the texts that occur as titles and queries.
Chars(text) ==
  CASE text = "" -> <<>>
    [] text = "a" -> <<"a">>
    [] text = "b" -> <<"b">>
    [] text = "A" -> <<"A">>
    [] text = "Untitled" -> <<"U", "n", "t", "i", "t", "l", "e", "d">>
    [] text = "uNT" -> <<"u", "N", "T">>
    [] text = "tn" -> <<"t", "n">>

\* String.prototype.toLowerCase, on the letters above
LowerOf == [U |-> "u", A |-> "a", N |-> "n", T |-> "t"]

toLowerCase(cs) ==
  [k \in 1 .. Len(cs) |-> IF cs[k] \in DOMAIN LowerOf THEN LowerOf[cs[k]] ELSE cs[k]]

\* String.prototype.includes
includes(cs, part) ==
  \E k \in 0 .. (Len(cs) - Len(part)) : SubSeq(cs, k + 1, k + Len(part)) = part

\* the filter modes of the select box and the queries typed into the search box
Filters == {"all", "active", "completed", "archived"}

Queries == {"", "A", "uNT", "tn"}

\* visibleTasks that compares the title and the query as they are written
visibleTasksCaseSensitive(ts, mode, q) ==
  LET byMode == SelectSeq(ts, LAMBDA t :
                  IF mode = "active" THEN ~t.completed /\ ~t.archived
                  ELSE IF mode = "completed" THEN t.completed /\ ~t.archived
                  ELSE IF mode = "archived" THEN t.archived
                  ELSE ~t.archived)
  IN  SelectSeq(byMode, LAMBDA t : includes(Chars(t.title), Chars(q)))

\* visibleTasks: the tasks of the mode, then those whose title has the query
visibleTasks(ts, mode, q) ==
  LET byMode == SelectSeq(ts, LAMBDA t :
                  IF mode = "active" THEN ~t.completed /\ ~t.archived
                  ELSE IF mode = "completed" THEN t.completed /\ ~t.archived
                  ELSE IF mode = "archived" THEN t.archived
                  ELSE ~t.archived)
  IN  SelectSeq(byMode, LAMBDA t :
        includes(toLowerCase(Chars(t.title)), toLowerCase(Chars(q))))

\* typing in the search box and choosing a filter mode: App renders again
\* with the same state, so nothing is saved and no memo is recomputed
setQuery(q) ==
  /\ session = "running"
  /\ query' = q
  /\ lastOp' = [op |-> "setQuery", id |-> 0]
  /\ UNCHANGED <<tasks, history, settings, store, session, now, tz, nextId, edits,
                 filter, memoAt, other>>

setFilter(mode) ==
  /\ session = "running"
  /\ filter' = mode
  /\ lastOp' = [op |-> "setFilter", id |-> 0]
  /\ UNCHANGED <<tasks, history, settings, store, session, now, tz, nextId, edits,
                 query, memoAt, other>>

Handlers ==
  \/ \E f \in FormInputs : addTask(f.title, f.notes, f.due, f.recurrence)
  \/ \E id \in IdInputs : toggleComplete(id)
  \/ \E id \in IdInputs : completeNow(id)
  \/ \E id \in IdInputs : deleteTask(id)
  \/ \E id \in IdInputs : archiveTask(id)

Next == Handlers \/ Reload \/ Tick

\* the operations the page offers
Spec == Init /\ [][Next]_vars

NextEdit == Handlers \/ \E id \in IdInputs, patch \in Patches : editTask(id, patch)

\* the six operations, editTask with any patch, in one session in UTC
InitEdit == Init /\ tz = 0

SpecEdit == InitEdit /\ [][NextEdit]_vars

\* A second tab.  Each tab runs its own App with its own state; they share
\* the store, the clock and the source of ids, and the user works in one
\* tab at a time: the variables of the state are those of the tab in
\* front, other holds the state of the tab behind it.
TabState == [open |-> TRUE, tasks |-> tasks, history |-> history,
             settings |-> settings, filter |-> filter, query |-> query,
             memoAt |-> memoAt]

\* a second tab is opened: App is mounted on the store in the new tab
OpenTab ==
  /\ session = "running"
  /\ ~other.open
  /\ other' = TabState
  /\ Mount(store, tz, "openTab")
  /\ UNCHANGED <<now, tz, nextId, edits>>

\* the user turns to the other tab; nothing runs in either
SwitchTab ==
  /\ other.open
  /\ other' = TabState
  /\ tasks' = other.tasks
  /\ history' = other.history
  /\ settings' = other.settings
  /\ filter' = other.filter
  /\ query' = other.query
  /\ memoAt' = other.memoAt
  /\ lastOp' = [op |-> "switchTab", id |-> 0]
  /\ UNCHANGED <<store, session, now, tz, nextId, edits>>

NextTabs ==
  \/ \E f \in FormInputs : addTask(f.title, f.notes, f.due, f.recurrence)
  \/ \E id \in IdInputs : completeNow(id)
  \/ \E id \in IdInputs : deleteTask(id)
  \/ Reload
  \/ OpenTab
  \/ SwitchTab

\* adding, completing and deleting tasks in two tabs on one store, with
\* reloads, in UTC
SpecTabs == InitEdit /\ [][NextTabs]_vars

\* A session on a store that an earlier session left: a daily, a weekly and
\* a monthly task due at one of several local dates and times, among them
\* the last days of months and of the year, in leap and common years.
DateOffsets == {-5, 0, 6}

SampleDates ==
  {[year |-> 2024, month |-> 0, date |-> 31, hour |-> 9],
   [year |-> 2023, month |-> 0, date |-> 31, hour |-> 22],
   [year |-> 2024, month |-> 1, date |-> 29, hour |-> 0],
   [year |-> 2025, month |-> 1, date |-> 28, hour |-> 23],
   [year |-> 2023, month |-> 11, date |-> 31, hour |-> 20],
   [year |-> 2024, month |-> 2, date |-> 31, hour |-> 3]}

SavedTasks(base) ==
  [i \in 1 .. 3 |->
     [id |-> 10 + i, title |-> "a", notes |-> "", createdAt |-> base - HoursPerDay,
      due |-> base, recurrence |-> <<"monthly", "weekly", "daily">>[i],
      completed |-> FALSE, nextDue |-> base, archived |-> FALSE]]

InitDates ==
  /\ tz \in DateOffsets
  /\ now = BaseNow
  /\ nextId = 1
  /\ edits = 0
  /\ session = "running"
  /\ filter = "all"
  /\ query = ""
  /\ memoAt = now
  /\ other = NoTab
  /\ \E d \in SampleDates :
       LET base == FromLocal(MakeDay(d.year, d.month, d.date), d.hour, tz)
           entry == saveState(AppState(SavedTasks(base), <<>>,
                                       [timezone |-> TimeZoneName(tz)]))
           s == InitialState(entry, tz)
       IN  /\ lastOp = [op |-> "mount", id |-> 0, raw |-> entry]
           /\ tasks = s.tasks
           /\ history = s.history
           /\ settings = s.settings
           /\ store = saveState(s)

NextDates == \E id \in IdInputs : completeNow(id)

\* completions of the saved tasks
SpecDates == InitDates /\ [][NextDates]_vars

NextView ==
  \/ Handlers
  \/ \E q \in Queries : setQuery(q)
  \/ \E mode \in Filters : setFilter(mode)

\* the operations of the page with the search box and the filter, in UTC
SpecView == InitEdit /\ [][NextView]_vars

(***************************************************************************)
(* Properties.                                                             *)
(***************************************************************************)
Recurring == {"daily", "weekly", "monthly"}

\* the step of a recurrence from an instant, in hours: one day, seven days,
\* or the length of the local month the instant lies in
StepHours(base, recurrence, z) ==
  IF recurrence = "daily" THEN HoursPerDay
  ELSE IF recurrence = "weekly" THEN 7 * HoursPerDay
  ELSE LET c == LocalDate(base, z) IN DaysInMonth(c.year, c.month) * HoursPerDay

\* indices of the history entries of task id
EntriesOf(h, id) == {j \in 1 .. Len(h) : h[j].taskId = id}

\* the last handler was op, called with the id of a task that was in tasks
Hit(op) == lastOp'.op = op /\ find(tasks, lastOp'.id) # 0

\* C1: every completeNow on a daily, weekly or monthly task sets nextDue to
\* the previous nextDue (the current time when it was null) plus exactly one
\* recurrence step, strictly later, and leaves completed false.
C1_RecurringCompletionAdvances ==
  [][(Hit("completeNow") /\ tasks[find(tasks, lastOp'.id)].recurrence \in Recurring)
       => LET i == find(tasks, lastOp'.id)
              base == IF tasks[i].nextDue = NULL THEN now ELSE tasks[i].nextDue
          IN  /\ Len(tasks') = Len(tasks)
              /\ tasks'[i].completed = FALSE
              /\ tasks'[i].nextDue = base + StepHours(base, tasks[i].recurrence, tz)
              /\ tasks'[i].nextDue > base]_vars

\* a monthly task completed twice by completeNow, the second time just now
C1_Witness ==
  /\ lastOp.op = "completeNow"
  /\ \E i \in 1 .. Len(tasks) :
       /\ tasks[i].id = lastOp.id
       /\ tasks[i].recurrence = "monthly"
       /\ tasks[i].due # NULL
       /\ tasks[i].nextDue > tasks[i].due + (50 * HoursPerDay)
       /\ Cardinality(EntriesOf(history, tasks[i].id)) = 2

\* C2: completeNow on a task with recurrence none leaves nextDue and due as
\* they were and sets completed; it adds one history entry every time, also
\* when the task was already completed.
C2_NonRecurringCompletion ==
  [][(Hit("completeNow") /\ tasks[find(tasks, lastOp'.id)].recurrence = "none")
       => LET i == find(tasks, lastOp'.id)
          IN  /\ Len(tasks') = Len(tasks)
              /\ tasks'[i].nextDue = tasks[i].nextDue
              /\ tasks'[i].due = tasks[i].due
              /\ tasks'[i].completed = TRUE
              /\ Len(history') = Len(history) + 1
              /\ history'[1].taskId = tasks[i].id]_vars

\* a task with recurrence none completed twice by completeNow
C2_Witness ==
  /\ lastOp.op = "completeNow"
  /\ \E i \in 1 .. Len(tasks) :
       /\ tasks[i].id = lastOp.id
       /\ tasks[i].recurrence = "none"
       /\ tasks[i].completed
       /\ tasks[i].nextDue = tasks[i].due
       /\ tasks[i].due # NULL
       /\ Cardinality(EntriesOf(history, tasks[i].id)) = 2

\* C3: history is append-only: in every step the old history is the tail of
\* the new one, entry for entry (same id, taskId, title, at, same order), so
\* its length never decreases and no deleteTask or rename touches an entry.
C3_HistoryAppendOnly ==
  [][/\ Len(history') >= Len(history)
     /\ \A j \in 1 .. Len(history) :
          history'[j + (Len(history') - Len(history))] = history[j]]_vars

\* deleteTask has just removed a task that has a history entry
C3_Witness ==
  /\ lastOp.op = "deleteTask"
  /\ find(tasks, lastOp.id) = 0
  /\ Len(tasks) > 0
  /\ EntriesOf(history, lastOp.id) # {}

IdOps == {"completeNow", "editTask", "toggleComplete", "deleteTask", "archiveTask"}

\* C4: an operation called with an id that no task has leaves tasks, history
\* and settings as they were, and the session running.
C4_UnknownIdNoOp ==
  [][(lastOp'.op \in IdOps /\ find(tasks, lastOp'.id) = 0)
       => /\ tasks' = tasks
          /\ history' = history
          /\ settings' = settings
          /\ session' = "running"]_vars

\* editTask has just been called with the id of no task, on a state with
\* tasks and history
C4_Witness ==
  /\ lastOp.op = "editTask"
  /\ find(tasks, lastOp.id) = 0
  /\ Len(tasks) = 2
  /\ Len(history) > 0

\* a store entry that holds no AppState
Malformed(entry) ==
  IF entry.kind = "json" THEN entry.shape # "AppState" ELSE TRUE

\* C5: whatever the store holds at startup the session is running, and from
\* a missing or malformed entry it starts in the fresh state.
C5_StartupAlwaysUsable ==
  lastOp.op \in {"mount", "reload"}
    => /\ session = "running"
       /\ Malformed(lastOp.raw)
            => /\ tasks = <<>>
               /\ history = <<>>
               /\ settings = [timezone |-> TimeZoneName(tz)]

\* C6: the store holds the whole current state: loading it, as a new session
\* does, gives the tasks, history and settings of the running session.
C6_StoreRoundTrip ==
  session = "running"
    => /\ store.kind = "json"
       /\ loadState(store).shape = "AppState"
       /\ InitialState(store, tz) = AppState(tasks, history, settings)

\* a session started from the store of an earlier one, with a task without
\* due date and an entry of history
C6_Witness ==
  /\ lastOp.op = "reload"
  /\ session = "running"
  /\ Len(history) > 0
  /\ \E i \in 1 .. Len(tasks) : tasks[i].due = NULL /\ tasks[i].nextDue # NULL

\* C7: the histogram has one bucket per local calendar date from 13 days ago
\* to today, oldest first, each counting the history entries completed on
\* that local date.
C7_HistogramByLocalDate ==
  session = "running"
    => LET hist == completedByDay(history, now, tz)
           today == LocalDay(now, tz)
       IN  /\ DOMAIN hist = 1 .. 14
           /\ \A k \in 1 .. 14 :
                /\ hist[k].label = CivilFromDay(today - (14 - k))
                /\ hist[k].count =
                     Cardinality({j \in 1 .. Len(history) :
                                    LocalDay(history[j].at, tz) = today - (14 - k)})

\* C8: nextDue of an existing task changes only in a completeNow step on
\* that task, which is recurring, and then moves forward; editTask,
\* archiveTask, toggleComplete, addTask and deleteTask change no nextDue.
C8_NextDueOnlyByCompletion ==
  [][/\ lastOp'.op \in {"editTask", "archiveTask", "toggleComplete"}
          => /\ Len(tasks') = Len(tasks)
             /\ \A i \in 1 .. Len(tasks) : tasks'[i].nextDue = tasks[i].nextDue
     /\ lastOp'.op = "addTask"
          => \A i \in 1 .. Len(tasks) : tasks'[i + 1].nextDue = tasks[i].nextDue
     /\ lastOp'.op = "deleteTask"
          => \A i \in 1 .. Len(tasks') : \E j \in 1 .. Len(tasks) : tasks'[i] = tasks[j]
     /\ lastOp'.op = "completeNow"
          => /\ Len(tasks') = Len(tasks)
             /\ \A i \in 1 .. Len(tasks) :
                  tasks'[i].nextDue # tasks[i].nextDue
                    => /\ tasks[i].id = lastOp'.id
                       /\ tasks[i].recurrence \in Recurring
                       /\ tasks[i].nextDue = NULL \/ tasks'[i].nextDue > tasks[i].nextDue]_vars

\* C9: task ids are pairwise distinct, history ids are pairwise distinct,
\* and no step changes the id or createdAt of a task that stays in tasks.
C9_IdsUniqueAndImmutable ==
  [][/\ \A i, j \in 1 .. Len(tasks') : tasks'[i].id = tasks'[j].id => i = j
     /\ \A i, j \in 1 .. Len(history') : history'[i].id = history'[j].id => i = j
     /\ Len(tasks') = Len(tasks)
          => \A i \in 1 .. Len(tasks) :
               tasks'[i].id = tasks[i].id /\ tasks'[i].createdAt = tasks[i].createdAt]_vars

\* C10: archiveTask sets archived on the tasks with the given id, in place,
\* and changes nothing else; tasks gets shorter only in a deleteTask step,
\* which removes the tasks with the given id and keeps the others in order.
C10_OnlyDeleteRemoves ==
  [][/\ lastOp'.op = "archiveTask"
          => /\ Len(tasks') = Len(tasks)
             /\ \A i \in 1 .. Len(tasks) :
                  tasks'[i] = IF tasks[i].id = lastOp'.id
                                THEN [tasks[i] EXCEPT !.archived = TRUE]
                                ELSE tasks[i]
             /\ history' = history
             /\ settings' = settings
     /\ Len(tasks') < Len(tasks) => lastOp'.op = "deleteTask"
     /\ lastOp'.op = "deleteTask"
          => LET kept == {i \in 1 .. Len(tasks) : tasks[i].id # lastOp'.id}
             IN  /\ Len(tasks') = Cardinality(kept)
                 /\ \A i \in kept :
                      tasks'[Cardinality({j \in kept : j <= i})] = tasks[i]
                 /\ history' = history]_vars

\* archiveTask has just archived the older of two tasks, which has history
C10_Witness ==
  /\ lastOp.op = "archiveTask"
  /\ Len(tasks) = 2
  /\ tasks[2].id = lastOp.id
  /\ tasks[2].archived
  /\ ~tasks[1].archived
  /\ EntriesOf(history, lastOp.id) # {}

\* the ids in use: those of the tasks and those of the history entries
UsedIds(ts, h) ==
  {ts[i].id : i \in 1 .. Len(ts)} \cup {h[j].id : j \in 1 .. Len(h)}
                                  \cup {h[j].taskId : j \in 1 .. Len(h)}

\* C11: addTask adds exactly one task, at index 0, with an id no task or
\* history entry has, completed and archived false, nextDue equal to the due
\* passed in (null when there is none), createdAt the current time, the
\* title "Untitled" when the given one is empty, notes "" when absent and
\* recurrence "none" when omitted; the tasks that existed keep their fields
\* and their order, and history and settings are unchanged.
C11_AddTaskPrepends ==
  [][lastOp'.op = "addTask" =>
       LET f == lastOp'.input
           d == IF f.due = NULL THEN NULL ELSE f.due - tz
           t == tasks'[1]
       IN  /\ Len(tasks') = Len(tasks) + 1
           /\ SubSeq(tasks', 2, Len(tasks')) = tasks
           /\ t.id \notin UsedIds(tasks, history)
           /\ t.completed = FALSE /\ t.archived = FALSE
           /\ t.due = d /\ t.nextDue = d
           /\ t.createdAt = now
           /\ t.title = (IF f.title = "" THEN "Untitled" ELSE f.title)
           /\ t.notes = f.notes
           /\ t.recurrence = (IF f.recurrence = "" THEN "none" ELSE f.recurrence)
           /\ history' = history
           /\ settings' = settings]_vars

\* a task with no title, no due and no recurrence was added in front of an
\* existing task while the history was not empty
C11_Witness ==
  /\ lastOp.op = "addTask"
  /\ lastOp.input.title = "" /\ lastOp.input.recurrence = ""
  /\ Len(tasks) = 2 /\ Len(history) > 0
  /\ tasks[1].id = lastOp.id /\ tasks[1].title = "Untitled"
  /\ tasks[1].recurrence = "none"

\* C12: toggleComplete(id) flips the completed field of the task with that
\* id and changes nothing else: no other field of that task, no other task,
\* not the order, not history, not settings; a second toggle of the same
\* task gives back the state before the first.
C12_ToggleFlipsOnlyCompleted ==
  [][Hit("toggleComplete") =>
       LET id == lastOp'.id
       IN  /\ Len(tasks') = Len(tasks)
           /\ \A i \in 1 .. Len(tasks) :
                IF tasks[i].id = id
                  THEN /\ tasks'[i].completed = ~tasks[i].completed
                       /\ [tasks'[i] EXCEPT !.completed = tasks[i].completed] = tasks[i]
                  ELSE tasks'[i] = tasks[i]
           /\ history' = history
           /\ settings' = settings
           /\ toggledTasks(tasks', id) = tasks
           /\ saveState(AppState(toggledTasks(tasks', id), history', settings')) = store]_vars

\* a completed task was toggled back to not completed, next to another task
\* and with a history entry present
C12_Witness ==
  /\ lastOp.op = "toggleComplete"
  /\ Len(tasks) = 2 /\ Len(history) > 0
  /\ \E i \in 1 .. Len(tasks) :
       /\ tasks[i].id = lastOp.id /\ ~tasks[i].completed
       /\ tasks[i].recurrence = "none"
       /\ \E j \in 1 .. Len(history) : history[j].taskId = lastOp.id

\* the same letter, in either case
SameLetter(c, d) ==
  \/ c = d
  \/ <<c, d>> \in {<<"A", "a">>, <<"N", "n">>, <<"T", "t">>, <<"U", "u">>}
  \/ <<d, c>> \in {<<"A", "a">>, <<"N", "n">>, <<"T", "t">>, <<"U", "u">>}

\* title contains q, letters compared without regard to case
ContainsIgnoringCase(title, q) ==
  LET cs == Chars(title)
      part == Chars(q)
  IN  \E k \in 0 .. (Len(cs) - Len(part)) :
        \A j \in 1 .. Len(part) : SameLetter(cs[k + j], part[j])

\* the predicate of a filter mode
InMode(t, mode) ==
  CASE mode = "active" -> ~t.completed /\ ~t.archived
    [] mode = "completed" -> t.completed /\ ~t.archived
    [] mode = "archived" -> t.archived
    [] mode = "all" -> ~t.archived

\* the positions of tasks whose task is in the list vs
ShownIn(vs) == {i \in 1 .. Len(tasks) : \E k \in 1 .. Len(vs) : vs[k] = tasks[i]}

\* C13: the visible task list is the subsequence of tasks, in the order of
\* tasks, of the tasks that satisfy the predicate of the filter mode and
\* whose title contains the query without regard to case; an archived task
\* is visible only in mode archived, and with an empty query every task is
\* visible in exactly one of the modes active, completed and archived.
C13_VisibleTasks ==
  /\ visibleTasks(tasks, filter, query)
       = SelectSeq(tasks, LAMBDA t : InMode(t, filter)
                                      /\ ContainsIgnoringCase(t.title, query))
  /\ \A mode \in Filters : \A i \in ShownIn(visibleTasks(tasks, mode, query)) :
       tasks[i].archived => mode = "archived"
  /\ \A i \in 1 .. Len(tasks) :
       Cardinality({mode \in {"active", "completed", "archived"} :
                      i \in ShownIn(visibleTasks(tasks, mode, ""))}) = 1

\* of an open task "a" and a completed task "Untitled", the mode completed
\* with the query "uNT" shows the second only
C13_Witness ==
  /\ filter = "completed" /\ query = "uNT"
  /\ Len(tasks) = 2
  /\ tasks[1].title = "a" /\ ~tasks[1].completed
  /\ tasks[2].title = "Untitled" /\ tasks[2].completed /\ ~tasks[2].archived
  /\ visibleTasks(tasks, filter, query) = <<tasks[2]>>

\* the sum of the counts of the rows 1 .. n
RECURSIVE SumCounts(_, _)
SumCounts(rows, n) == IF n = 0 THEN 0 ELSE SumCounts(rows, n - 1) + rows[n].count

\* rows is the per-task series of tasks ts and history h: a row per task in
\* the order of ts, each counting the entries of its task, the entries of
\* tasks that are not in ts counted nowhere
SeriesOf(rows, h, ts) ==
  /\ Len(rows) = Len(ts)
  /\ \A i \in 1 .. Len(ts) :
       /\ rows[i].id = ts[i].id
       /\ rows[i].title = ts[i].title
       /\ rows[i].count = Cardinality(EntriesOf(h, ts[i].id))
  /\ SumCounts(rows, Len(rows))
       = Cardinality({j \in 1 .. Len(h) : find(ts, h[j].taskId) # 0})

\* a step as C14 describes it
SeriesStep ==
  /\ SeriesOf(completionsPerTask(history', tasks'), history', tasks')
  /\ Hit("completeNow") =>
       LET old == completionsPerTask(history, tasks)
           new == completionsPerTask(history', tasks')
       IN  /\ Len(new) = Len(old)
           /\ \A i \in 1 .. Len(old) :
                new[i].count = old[i].count
                                 + (IF old[i].id = lastOp'.id THEN 1 ELSE 0)

\* C14: after any sequence of operations completionsPerTask has one row per
\* task in tasks, in the order of tasks, whose count is the number of
\* history entries with that task's id (0 when there are none); the entries
\* of deleted tasks are counted in no row; each completeNow on an existing
\* task raises the count of that task by 1 and no other count.
C14_CompletionsPerTask == [][SeriesStep]_vars

\* h is most-recent-first: the at timestamps do not increase with the index
MostRecentFirst(h) ==
  \A i \in 1 .. Len(h) : \A j \in (i + 1) .. Len(h) : h[i].at >= h[j].at

\* rows are the (at most HistoryRows) most recent entries of h, in its order
MostRecentOf(rows, h) ==
  /\ Len(rows) = (IF Len(h) < HistoryRows THEN Len(h) ELSE HistoryRows)
  /\ \A k \in 1 .. Len(rows) : rows[k] = h[k]
  /\ MostRecentFirst(rows)
  /\ \A k \in 1 .. Len(rows) : \A j \in (Len(rows) + 1) .. Len(h) :
       rows[k].at >= h[j].at

\* a history of one task completed every hour, longer than the page shows
LongHistory ==
  [k \in 1 .. (HistoryRows + 2) |->
     [id |-> k, taskId |-> 0, title |-> "a", at |-> BaseNow + ((HistoryRows + 2) - k)]]

\* C15: with a clock that never goes backwards, history is ordered
\* most-recent-first in every reachable state (at does not increase from
\* the first entry on), so the rows the page shows, the first 20 entries,
\* are the 20 most recent completions, most recent first.
C15_HistoryMostRecentFirst ==
  /\ MostRecentFirst(history)
  /\ MostRecentOf(historyRows(history), history)
  /\ MostRecentOf(historyRows(LongHistory), LongHistory)

\* two completions at different times are in the history, the later first
C15_Witness ==
  /\ Len(history) >= 2
  /\ history[1].at > history[2].at
  /\ historyRows(history) = history

\* a step as C16 describes it
CompletionStep ==
  /\ \A j \in 1 .. Len(history') :
       \/ \E k \in 1 .. Len(history) : history[k] = history'[j]
       \/ find(tasks, history'[j].taskId) # 0
  /\ Hit("completeNow") =>
       LET id == lastOp'.id
           t == tasks[find(tasks, id)]
           e == history'[1]
       IN  /\ Len(history') = Len(history) + 1
           /\ Tail(history') = history
           /\ e.id \notin UsedIds(tasks, history)
           /\ e.taskId = id /\ e.title = t.title /\ e.at = now
           /\ Len(tasks') = Len(tasks)
           /\ \A j \in 1 .. Len(tasks) :
                IF tasks[j].id # id
                  THEN tasks'[j] = tasks[j]
                  ELSE /\ [tasks'[j] EXCEPT !.completed = tasks[j].completed,
                                            !.nextDue = tasks[j].nextDue] = tasks[j]
                       /\ tasks'[j].completed = (tasks[j].recurrence \notin Recurring)
                       /\ tasks[j].recurrence \in Recurring
                            => tasks'[j].nextDue # tasks[j].nextDue
           /\ settings' = settings
           /\ InitialState(store', tz) = AppState(tasks', history', settings')

\* C16: completeNow(id) on an existing task is one transition that puts
\* exactly one new entry in front of history, with an id not in use,
\* taskId = id, the title the task has at that moment and at = now, and
\* changes no field of a task with another id; the task itself changes in
\* completed and nextDue only and is not completed afterwards when it is
\* recurring; the stored state is the new state, entry and task update
\* together; every entry that enters history has the id of a task that was
\* in tasks before the step.
C16_CompleteNowAtomic == [][CompletionStep]_vars

\* the handlers after which App has rendered at the current clock reading
RenderOps ==
  {"mount", "reload", "addTask", "toggleComplete", "deleteTask", "archiveTask",
   "editTask"}

\* C17: in every rendered state the histogram on the page is the 14-day
\* histogram of the current history at the current time, and the per-task
\* series is completionsPerTask of the current history and tasks; no view
\* is left from an earlier date while history stays the same.
C17_ViewsAreCurrent ==
  (session = "running" /\ lastOp.op \in RenderOps)
    => /\ shownPerTask = completionsPerTask(history, tasks)
       /\ memoAt # now => shownByDay = completedByDay(history, now, tz)

\* the handlers that end with a write of the store
WriteOps ==
  {"addTask", "toggleComplete", "deleteTask", "archiveTask", "reload", "openTab"}

\* a step of running sessions on one store as C18 describes it
LastWriterStep ==
  session' = "running" =>
    /\ (lastOp'.op \in WriteOps \/ Hit("completeNow"))
         => InitialState(store', tz) = AppState(tasks', history', settings')
    /\ (lastOp'.op = "switchTab" \/ (lastOp'.op = "completeNow" /\ ~Hit("completeNow")))
         => store' = store
    /\ lastOp'.op \in {"reload", "openTab"}
         => AppState(tasks', history', settings') = InitialState(store, tz)
    /\ \/ InitialState(store', tz) = AppState(tasks', history', settings')
       \/ /\ other'.open
          /\ InitialState(store', tz)
               = AppState(other'.tasks, other'.history, other'.settings)

\* C18: when two sessions share the store entry, each with its own state
\* loaded at its start and each overwriting the whole entry after its
\* mutations, the stored value is always the complete state of the session
\* that wrote last, with nothing merged in from the other; a session
\* started afterwards has exactly the stored state.
C18_LastWriterWins == [][LastWriterStep]_vars

\* the tab behind added a task after the tab in front had loaded; the tab
\* in front then added its own: the store has the second task only
C18_Witness ==
  /\ other.open
  /\ lastOp.op = "addTask"
  /\ Len(tasks) = 1 /\ Len(other.tasks) = 1
  /\ tasks[1].id > other.tasks[1].id
  /\ InitialState(store, tz).tasks = tasks

\* plusInterval(.., "daily", ..) applied k times
RECURSIVE DailyTimes(_, _, _)
DailyTimes(base, k, z) ==
  IF k = 0 THEN base ELSE plusInterval(DailyTimes(base, k - 1, z), "daily", z)

\* the month after month m of year y
MonthAfter(y, m) == IF m = 11 THEN [year |-> y + 1, month |-> 0]
                              ELSE [year |-> y, month |-> m + 1]

\* local dates a month apart, as the calendar has them: <<from, to>>
MonthLater ==
  {<<[year |-> 2024, month |-> 0, date |-> 31], [year |-> 2024, month |-> 2, date |-> 2]>>,
   <<[year |-> 2023, month |-> 0, date |-> 31], [year |-> 2023, month |-> 2, date |-> 3]>>,
   <<[year |-> 2024, month |-> 1, date |-> 29], [year |-> 2024, month |-> 2, date |-> 29]>>,
   <<[year |-> 2025, month |-> 1, date |-> 28], [year |-> 2025, month |-> 2, date |-> 28]>>,
   <<[year |-> 2023, month |-> 11, date |-> 31], [year |-> 2024, month |-> 0, date |-> 31]>>,
   <<[year |-> 2024, month |-> 2, date |-> 31], [year |-> 2024, month |-> 4, date |-> 1]>>}

\* r is the base b moved by one step of the recurrence as C19 describes it
MovedAsClaimed(b, recurrence, r, z) ==
  LET c == LocalDate(b, z)
      d == LocalDate(r, z)
      n == MonthAfter(c.year, c.month)
      len == DaysInMonth(n.year, n.month)
      nn == MonthAfter(n.year, n.month)
  IN  /\ r > b
      /\ LocalHour(r, z) = LocalHour(b, z)
      /\ recurrence = "daily" => LocalDay(r, z) = LocalDay(b, z) + 1
      /\ recurrence = "weekly" => /\ LocalDay(r, z) = LocalDay(b, z) + 7
                                  /\ r = DailyTimes(b, 7, z)
      /\ recurrence = "monthly" =>
           /\ IF c.date <= len
                THEN d = [year |-> n.year, month |-> n.month, date |-> c.date]
                ELSE d = [year |-> nn.year, month |-> nn.month, date |-> c.date - len]
           /\ \A p \in MonthLater : p[1] = c => p[2] = d

\* C19: plusInterval returns an instant strictly later than its base: for
\* daily the next calendar day, for weekly the seventh day after (the same
\* as daily applied 7 times), for monthly the same day of the next month,
\* running over into the month after when the next month is shorter (Jan 31
\* gives a day early in March), leap years respected, the time of day kept.
C19_PlusIntervalCalendar ==
  [][Hit("completeNow") =>
       \A i \in 1 .. Len(tasks) :
         (tasks[i].id = lastOp'.id /\ tasks[i].recurrence \in Recurring)
           => /\ tasks'[i].nextDue
                   = plusInterval(tasks[i].nextDue, tasks[i].recurrence, tz)
              /\ MovedAsClaimed(tasks[i].nextDue, tasks[i].recurrence,
                                tasks'[i].nextDue, tz)]_vars

\* the monthly task due on 2024-01-31 was completed: it is due on 2024-03-02
C19_Witness ==
  /\ lastOp.op = "completeNow"
  /\ \E i \in 1 .. Len(tasks) :
       /\ tasks[i].id = lastOp.id /\ tasks[i].recurrence = "monthly"
       /\ LocalDate(tasks[i].due, tz) = [year |-> 2024, month |-> 0, date |-> 31]
       /\ LocalDate(tasks[i].nextDue, tz) = [year |-> 2024, month |-> 2, date |-> 2]
       /\ LocalHour(tasks[i].nextDue, tz) = LocalHour(tasks[i].due, tz)

\* the instant k steps of the recurrence after base
RECURSIVE Advanced(_, _, _, _)
Advanced(base, recurrence, k, z) ==
  IF k = 0 THEN base
  ELSE LET p == Advanced(base, recurrence, k - 1, z)
       IN  p + StepHours(p, recurrence, z)

\* C20: under the operations the page offers, the schedule and the log of a
\* task agree: a recurring task created with a due has as nextDue its due
\* moved by as many steps of its recurrence as history has entries with its
\* id; a task without recurrence has nextDue = due however many entries.
C20_ScheduleAgreesWithLog ==
  \A i \in 1 .. Len(tasks) :
    LET t == tasks[i]
        k == Cardinality(EntriesOf(history, t.id))
    IN  /\ (t.recurrence \in Recurring /\ t.due # NULL)
             => t.nextDue = Advanced(t.due, t.recurrence, k, tz)
        /\ t.recurrence = "none" => t.nextDue = t.due

\* a monthly task completed twice, due two months after its due, next to a
\* state of history of two entries
C20_Witness ==
  /\ Len(history) = 2
  /\ \E i \in 1 .. Len(tasks) :
       /\ tasks[i].recurrence = "monthly"
       /\ Cardinality(EntriesOf(history, tasks[i].id)) = 2
       /\ tasks[i].nextDue = Advanced(tasks[i].due, "monthly", 2, tz)
       /\ tasks[i].nextDue > tasks[i].due + (59 * HoursPerDay)
====
